---- MODULE Spec2Model ----
(***************************************************************************)
(* chimera-rs: src/wrapper.h, the header handed to the binding generator.  *)
(*                                                                         *)
(* The header has no functions of its own; what it "does" is what a C      *)
(* front end does when it reads it: comments are removed, the text is cut  *)
(* into lines, and every #include directive names a header to pull in.     *)
(* The model holds the text of the file character for character and reads  *)
(* it the way the front end does, one character (or comment delimiter) per *)
(* step, recording the kind of every line and the path of every directive. *)
(***************************************************************************)
EXTENDS Integers, Sequences, FiniteSets, TLC

VARIABLES
    pc,          \* "scan" while reading the file, "done" at end of file
    pos,         \* index in wrapper_h of the next character to read
    inComment,   \* TRUE inside a /* ... */ comment
    cur,         \* text of the current line with its comments removed
    commented,   \* TRUE when part of the current line is comment
    newlines,    \* number of newline characters read so far
    kinds,       \* kind of every line read so far, in file order
    includes     \* path of every #include directive read so far, in order

vars == <<pc, pos, inComment, cur, commented, newlines, kinds, includes>>

----------------------------------------------------------------------------
(* The text of src/wrapper.h *)

\* lines 1-4: the comment that heads the file and the blank line after it,
\* each ended by its newline character
Banner ==
       "/**\n"
    \o " * Header files re-exported from the MLIR C API for binding generation.\n"
    \o " */\n"
    \o "\n"

\* lines 5-16: the directives, one per line
IncludeLines ==
    << "#include <mlir-c/Support.h>",
       "#include <mlir-c/IR.h>",
       "#include <mlir-c/Registration.h>",
       "#include <mlir-c/Transforms.h>",
       "#include <mlir-c/Pass.h>",
       "#include <mlir-c/IntegerSet.h>",
       "#include <mlir-c/ExecutionEngine.h>",
       "#include <mlir-c/Diagnostics.h>",
       "#include <mlir-c/Conversion.h>",
       "#include <mlir-c/BuiltinTypes.h>",
       "#include <mlir-c/BuiltinAttributes.h>",
       "#include <mlir-c/Dialect/LLVM.h>" >>

\* the lines of ls with a newline between two of them and none after the last
RECURSIVE JoinLines(_)
JoinLines(ls) ==
    IF Len(ls) = 0 THEN ""
    ELSE IF Len(ls) = 1 THEN ls[1]
    ELSE ls[1] \o "\n" \o JoinLines(Tail(ls))

\* ls without its i-th line
DropLine(ls, i) == SubSeq(ls, 1, i - 1) \o SubSeq(ls, i + 1, Len(ls))

\* ls with its i-th and j-th lines exchanged
SwapLines(ls, i, j) == [ls EXCEPT ![i] = ls[j], ![j] = ls[i]]

\* the header with one directive lost (mlir-c/IntegerSet.h)
wrapper_h_dropped == Banner \o JoinLines(DropLine(IncludeLines, 6))

\* the header with two directives exchanged (Pass.h and Transforms.h)
wrapper_h_swapped == Banner \o JoinLines(SwapLines(IncludeLines, 4, 5))

\* the header with a declaration of its own after the directives
wrapper_h_declaring ==
    Banner \o JoinLines(IncludeLines) \o "\ntypedef struct MlirContext MlirContext;"

\* the header with its last line ended by a newline character
wrapper_h_terminated == Banner \o JoinLines(IncludeLines) \o "\n"

\* the whole file: the last line is not ended by a newline character
wrapper_h == Banner \o JoinLines(IncludeLines)

----------------------------------------------------------------------------
(* Reading the text *)

\* characters i..j of s, the empty string when the range leaves s
Sub(s, i, j) == IF 1 <= i /\ i <= j /\ j <= Len(s) THEN SubSeq(s, i, j) ELSE ""

CharAt(s, i) == Sub(s, i, i)

IsSpace(c) == c \in {" ", "\t"}

\* index of the first character of s at or after i that is no space
\* (Len(s) + 1 when there is none)
RECURSIVE SkipSpaces(_, _)
SkipSpaces(s, i) ==
    IF i > Len(s) THEN Len(s) + 1
    ELSE IF IsSpace(CharAt(s, i)) THEN SkipSpaces(s, i + 1)
    ELSE i

\* index of the first character c of s at or after i (Len(s) + 1 when none)
RECURSIVE FindChar(_, _, _)
FindChar(s, c, i) ==
    IF i > Len(s) THEN Len(s) + 1
    ELSE IF CharAt(s, i) = c THEN i
    ELSE FindChar(s, c, i + 1)

AllSpace(s) == SkipSpaces(s, 1) > Len(s)

NoPath == ""

\* the path of the directive when the line is
\*     # include <path>      or      # include "path"
\* (spaces allowed where C allows them), NoPath for any other line
IncludePath(line) ==
    LET hash  == SkipSpaces(line, 1)
        name  == SkipSpaces(line, hash + 1)
        open  == SkipSpaces(line, name + 7)
        close == FindChar(line, IF CharAt(line, open) = "<" THEN ">" ELSE "\"",
                          open + 1)
    IN  IF /\ CharAt(line, hash) = "#"
           /\ Sub(line, name, name + 6) = "include"
           /\ CharAt(line, open) \in {"<", "\""}
           /\ close <= Len(line)
           /\ close > open + 1
           /\ SkipSpaces(line, close + 1) > Len(line)
        THEN Sub(line, open + 1, close - 1)
        ELSE NoPath

IsInclude(line) == IncludePath(line) # NoPath

\* what a line of the file is, given its text without comments and whether
\* part of it was comment
LineKind(line, hadComment) ==
    IF IsInclude(line) THEN "include"
    ELSE IF AllSpace(line) THEN (IF hadComment THEN "comment" ELSE "blank")
    ELSE "other"

Kinds == {"include", "comment", "blank", "other"}

\* the line just completed is recorded; a directive also records its path
EndLine ==
    /\ kinds' = Append(kinds, LineKind(cur, commented))
    /\ includes' = IF IsInclude(cur) THEN Append(includes, IncludePath(cur))
                   ELSE includes
    /\ cur' = ""
    /\ commented' = inComment

AtEnd == pos > Len(wrapper_h)

----------------------------------------------------------------------------
Init ==
    /\ pc = "scan"
    /\ pos = 1
    /\ inComment = FALSE
    /\ cur = ""
    /\ commented = FALSE
    /\ newlines = 0
    /\ kinds = << >>
    /\ includes = << >>

\* "/*" outside a comment opens one; the comment counts as one space
OpenComment ==
    /\ pc = "scan" /\ ~AtEnd /\ ~inComment
    /\ Sub(wrapper_h, pos, pos + 1) = "/*"
    /\ inComment' = TRUE
    /\ commented' = TRUE
    /\ cur' = cur \o " "
    /\ pos' = pos + 2
    /\ UNCHANGED <<pc, newlines, kinds, includes>>

\* "*/" inside a comment closes it
CloseComment ==
    /\ pc = "scan" /\ ~AtEnd /\ inComment
    /\ Sub(wrapper_h, pos, pos + 1) = "*/"
    /\ inComment' = FALSE
    /\ pos' = pos + 2
    /\ UNCHANGED <<pc, cur, commented, newlines, kinds, includes>>

\* any other character of a comment is dropped
CommentChar ==
    /\ pc = "scan" /\ ~AtEnd /\ inComment
    /\ Sub(wrapper_h, pos, pos + 1) # "*/"
    /\ CharAt(wrapper_h, pos) # "\n"
    /\ pos' = pos + 1
    /\ UNCHANGED <<pc, inComment, cur, commented, newlines, kinds, includes>>

\* a character outside a comment belongs to the line
CodeChar ==
    /\ pc = "scan" /\ ~AtEnd /\ ~inComment
    /\ Sub(wrapper_h, pos, pos + 1) # "/*"
    /\ CharAt(wrapper_h, pos) # "\n"
    /\ cur' = cur \o CharAt(wrapper_h, pos)
    /\ pos' = pos + 1
    /\ UNCHANGED <<pc, inComment, commented, newlines, kinds, includes>>

\* a newline character ends the line, inside a comment or not
NewLine ==
    /\ pc = "scan" /\ ~AtEnd
    /\ CharAt(wrapper_h, pos) = "\n"
    /\ EndLine
    /\ newlines' = newlines + 1
    /\ pos' = pos + 1
    /\ UNCHANGED <<pc, inComment>>

\* end of file: text after the last newline character is a line too
EndOfFile ==
    /\ pc = "scan" /\ AtEnd
    /\ IF Len(wrapper_h) > 0 /\ CharAt(wrapper_h, Len(wrapper_h)) # "\n"
       THEN EndLine
       ELSE UNCHANGED <<kinds, includes, cur, commented>>
    /\ pc' = "done"
    /\ UNCHANGED <<pos, inComment, newlines>>

Next ==
    \/ OpenComment
    \/ CloseComment
    \/ CommentChar
    \/ CodeChar
    \/ NewLine
    \/ EndOfFile

Spec == Init /\ [][Next]_vars

----------------------------------------------------------------------------
Range(s) == {s[i] : i \in 1..Len(s)}

TypeOK ==
    /\ pc \in {"scan", "done"}
    /\ pos \in 1..(Len(wrapper_h) + 1)
    /\ inComment \in BOOLEAN
    /\ commented \in BOOLEAN
    /\ newlines \in 0..Len(wrapper_h)
    /\ Range(kinds) \subseteq Kinds
----------------------------------------------------------------------------
(* The header paths of section 6 of the specification, in its order *)
Section6Paths ==
    << "mlir-c/Support.h", "mlir-c/IR.h", "mlir-c/Registration.h",
       "mlir-c/Transforms.h", "mlir-c/Pass.h", "mlir-c/IntegerSet.h",
       "mlir-c/ExecutionEngine.h", "mlir-c/Diagnostics.h",
       "mlir-c/Conversion.h", "mlir-c/BuiltinTypes.h",
       "mlir-c/BuiltinAttributes.h", "mlir-c/Dialect/LLVM.h" >>

IsPrefix(s, t) == Len(s) <= Len(t) /\ SubSeq(t, 1, Len(s)) = s

CountKind(k) == Cardinality({i \in 1..Len(kinds) : kinds[i] = k})

\* C1: the set of paths the directives of wrapper.h name is exactly the set
\* of the twelve paths of section 6: at no point of the reading has a path
\* outside the list been included, and once the whole file is read every
\* listed path has been included.
C1_IncludedPathsAreSection6 ==
    /\ Range(includes) \subseteq Range(Section6Paths)
    /\ pc = "done" => Range(includes) = Range(Section6Paths)

\* the whole file is read and the included paths are the twelve listed ones
C1_Witness ==
    /\ pc = "done"
    /\ Cardinality(Range(includes)) = 12
    /\ "mlir-c/Dialect/LLVM.h" \in Range(includes)

\* C2: wrapper.h holds nothing but inclusion directives: every line that is
\* neither blank nor part of a comment is an #include directive, whether the
\* line is complete or still being read at the end of the file.
C2_OnlyIncludeDirectives ==
    /\ \A i \in 1..Len(kinds) : kinds[i] \in {"blank", "comment", "include"}
    /\ pc = "done" =>
          /\ Len(kinds) > 0
          /\ \A i \in 1..Len(kinds) :
                kinds[i] \notin {"blank", "comment"} => kinds[i] = "include"

\* the whole file is read: it had comment lines, a blank line and directives
C2_Witness ==
    /\ pc = "done"
    /\ CountKind("comment") > 0
    /\ CountKind("blank") > 0
    /\ CountKind("include") > 0

\* C3 as stated: the file is 15 lines long and its entire content is a list
\* of #include directives.
C3_FifteenLinesAllIncludes ==
    pc = "done" =>
        /\ Len(kinds) = 15
        /\ \A i \in 1..Len(kinds) : kinds[i] = "include"

\* C3 amended: the file is 16 lines long, 15 of them ended by a newline
\* character and the last one ended by the end of the file; its content is a
\* three-line comment, one blank line and a list of twelve #include
\* directives, in that order.
C3_SixteenLinesBannerThenIncludes ==
    pc = "done" =>
        /\ Len(kinds) = 16
        /\ newlines = 15
        /\ pos = Len(wrapper_h) + 1
        /\ kinds = [i \in 1..16 |->
                      IF i <= 3 THEN "comment"
                      ELSE IF i = 4 THEN "blank" ELSE "include"]

\* the whole file is read and its last line, the one no newline ends, was a
\* directive
C3_Witness ==
    /\ pc = "done"
    /\ Len(kinds) > newlines
    /\ kinds[Len(kinds)] = "include"

\* C4: every path is named by exactly one directive and the directives come
\* in the order of section 6: what has been included so far is always the
\* beginning of the list of section 6, without a repeated path, and once the
\* whole file is read it is the whole list, twelve directives for twelve
\* paths.
C4_OneDirectivePerPathInOrder ==
    /\ IsPrefix(includes, Section6Paths)
    /\ Cardinality(Range(includes)) = Len(includes)
    /\ CountKind("include") = Len(includes)
    /\ pc = "done" =>
          /\ includes = Section6Paths
          /\ Len(includes) = 12

\* the whole file is read and twelve directives were recorded
C4_Witness ==
    /\ pc = "done"
    /\ Len(includes) = 12
    /\ includes[1] = "mlir-c/Support.h"
    /\ includes[12] = "mlir-c/Dialect/LLVM.h"
====
